---- MODULE Spec2Model ----
(***************************************************************************)
(* A model of the math-parser interpreter: lexer (src/src/lexer.rs),       *)
(* recursive-descent parser (src/src/parser.rs), tree-walking evaluator    *)
(* (src/src/expr.rs) and the interactive driver (src/src/main.rs).         *)
(*                                                                         *)
(* Text is a sequence of one-character strings.  i64 is modelled with      *)
(* IntBits bits (two's complement), f64 as an exact rational n/d with      *)
(* d = 0 standing for +inf (n = 1), -inf (n = -1) and NaN (n = 0).         *)
(***************************************************************************)
EXTENDS Integers, Sequences, FiniteSets, TLC

VARIABLES
  env,        \* Env.vars: name -> Value (a function on the bound names)
  env0,       \* Env.vars as it was when the operation that ran last started
  trace,      \* the effects of the operation that ran last, in the order they happened:
              \* lines written to standard output, inserts into and reads of Env.vars
  input,      \* the text handed to the operation that ran last
  crashed,    \* the process panicked
  lines,      \* number of lines the session has read
  overflow_checks, \* the build: TRUE = debug profile (overflow panics), FALSE = release (wraps)
  res         \* the result of the operation that ran last

vars == <<env, env0, trace, input, crashed, lines, overflow_checks, res>>

\* ---------------------------------------------------------------- bounds

\* Width of the modelled i64.
IntBits == 4
\* Number of lines an interactive session reads.
MaxLines == 3

MaxInt == 2 ^ (IntBits - 1) - 1
MinInt == -(2 ^ (IntBits - 1))

None == [type |-> "None"]

\* ---------------------------------------------------------------- characters

Digits == {"0", "1", "2", "3", "4", "5", "6", "7", "8", "9"}
Lower == {"a", "b", "c", "d", "e", "f", "g", "h", "i", "j", "k", "l", "m",
          "n", "o", "p", "q", "r", "s", "t", "u", "v", "w", "x", "y", "z"}
Upper == {"A", "B", "C", "D", "E", "F", "G", "H", "I", "J", "K", "L", "M",
          "N", "O", "P", "Q", "R", "S", "T", "U", "V", "W", "X", "Y", "Z"}
\* char::is_ascii_alphabetic
Alphabetic == Lower \cup Upper
\* char::is_ascii_whitespace: space, tab, line feed, form feed, carriage return
Whitespace == {" ", "\t", "\n", "\f", "\r"}

DigitVal(c) ==
  CASE c = "0" -> 0 [] c = "1" -> 1 [] c = "2" -> 2 [] c = "3" -> 3 [] c = "4" -> 4
    [] c = "5" -> 5 [] c = "6" -> 6 [] c = "7" -> 7 [] c = "8" -> 8 [] c = "9" -> 9

DigitChar(n) ==
  CASE n = 0 -> "0" [] n = 1 -> "1" [] n = 2 -> "2" [] n = 3 -> "3" [] n = 4 -> "4"
    [] n = 5 -> "5" [] n = 6 -> "6" [] n = 7 -> "7" [] n = 8 -> "8" [] n = 9 -> "9"

Abs(n) == IF n < 0 THEN -n ELSE n

RECURSIVE Gcd(_, _)
Gcd(a, b) == IF b = 0 THEN a ELSE Gcd(b, a % b)

\* ---------------------------------------------------------------- values

VInt(n) == [t |-> "Int", n |-> n]
VFloat(f) == [t |-> "Float", f |-> f]
VBool(b) == [t |-> "Bool", b |-> b]

\* An f64: n/d in lowest terms, d >= 0; d = 0 is an infinity or NaN.
Rat(n, d) ==
  IF d = 0 THEN [n |-> IF n > 0 THEN 1 ELSE IF n < 0 THEN -1 ELSE 0, d |-> 0]
  ELSE LET s == IF d < 0 THEN -1 ELSE 1
           g == Gcd(Abs(n), Abs(d))
       IN  [n |-> (s * n) \div g, d |-> (s * d) \div g]

NaN == [n |-> 0, d |-> 0]
IsNaN(x) == x.d = 0 /\ x.n = 0
IsInf(x) == x.d = 0 /\ x.n # 0

\* ---------------------------------------------------------------- lexer

Tok(type) == [type |-> type]
TokInt(n) == [type |-> "Int", int |-> n]
TokFloat(f) == [type |-> "Float", float |-> f]
TokName(s) == [type |-> "Name", name |-> s]

lexer_first(s) == s[1]

skip_char(s) == Tail(s)

\* eat_while with the predicate given as the set of characters it accepts:
\* <<the rest, the accepted prefix>>.
eat_while(s, cond) ==
  LET pos == CHOOSE p \in 0..Len(s) :
               /\ \A i \in 1..p : s[i] \in cond
               /\ (p = Len(s) \/ s[p + 1] \notin cond)
  IN  <<SubSeq(s, pos + 1, Len(s)), SubSeq(s, 1, pos)>>

skip_whitespace(s) == eat_while(s, Whitespace)[1]

eat_digits(s) == eat_while(s, Digits)

\* Err::new
LexErr(remaining_input, msg) == [msg |-> msg, rest_len |-> Len(remaining_input)]

unexpected_char(remaining_input) ==
  LexErr(remaining_input, "Sorry, I dont know what to do with this character :(")

failed_to_parse_number(remaining_input) ==
  LexErr(remaining_input,
         "Sorry, I couldn't construct this number :( Make sure that it's not too big!")

\* str::parse::<i64> on a run of digits: the value, or -1 when it does not fit.
RECURSIVE DigitsValue(_, _)
DigitsValue(digits, acc) ==
  IF digits = <<>> THEN acc
  ELSE LET next == acc * 10 + DigitVal(Head(digits))
       IN  IF next > MaxInt THEN -1 ELSE DigitsValue(Tail(digits), next)

parse_i64(digits) ==
  IF digits = <<>> THEN [ok |-> FALSE]
  ELSE LET v == DigitsValue(digits, 0)
       IN  IF v < 0 THEN [ok |-> FALSE] ELSE [ok |-> TRUE, val |-> v]

RECURSIVE DecimalValue(_, _)
DecimalValue(digits, acc) ==
  IF digits = <<>> THEN acc ELSE DecimalValue(Tail(digits), acc * 10 + DigitVal(Head(digits)))

\* str::parse::<f64> on "<digits>.<digits>" (exact, no rounding).
parse_f64(slice) ==
  LET whole == eat_digits(slice)[2]
      frac == SubSeq(slice, Len(whole) + 2, Len(slice))
  IN  Rat(DecimalValue(whole \o frac, 0), 10 ^ Len(frac))

LexOk(rest, token) == [ok |-> TRUE, rest |-> rest, token |-> token]
LexFail(err) == [ok |-> FALSE, err |-> err]

eat_number(s) ==
  LET r == eat_digits(s)
      rest == r[1]
      digits == r[2]
  IN  IF rest = <<>> \/ lexer_first(rest) # "."
      THEN LET int == parse_i64(digits)
           IN  IF int.ok THEN LexOk(rest, TokInt(int.val))
               ELSE LexFail(failed_to_parse_number(s))
      ELSE LET rest2 == eat_digits(skip_char(rest))[1]
               len == Len(s) - Len(rest2)
           IN  LexOk(rest2, TokFloat(parse_f64(SubSeq(s, 1, len))))

eat_word(s) ==
  LET r == eat_while(s, Alphabetic)
      word == r[2]
      token == CASE word = <<"l", "e", "t">> -> Tok("LetKeyword")
                 [] word = <<"p", "r", "i", "n", "t">> -> Tok("PrintKeyword")
                 [] OTHER -> TokName(word)
  IN  LexOk(r[1], token)

eat_token(s) ==
  LET c == lexer_first(s)
  IN  CASE c = "+" -> LexOk(skip_char(s), Tok("Plus"))
        [] c = "-" -> LexOk(skip_char(s), Tok("Minus"))
        [] c = "*" -> LexOk(skip_char(s), Tok("Star"))
        [] c = "/" -> LexOk(skip_char(s), Tok("Slash"))
        [] c = "(" -> LexOk(skip_char(s), Tok("LeftParen"))
        [] c = ")" -> LexOk(skip_char(s), Tok("RightParen"))
        [] c = "=" -> LexOk(skip_char(s), Tok("Equals"))
        [] c \in Alphabetic -> eat_word(s)
        [] c \in Digits -> eat_number(s)
        [] OTHER -> LexFail(unexpected_char(s))

\* str::trim_end, on the ASCII inputs tokenize accepts.
RECURSIVE trim_end(_)
trim_end(s) ==
  IF s # <<>> /\ s[Len(s)] \in Whitespace THEN trim_end(SubSeq(s, 1, Len(s) - 1)) ELSE s

\* error::print_err: the message, the number and text of the line, the caret's column.
print_err(s, pos, msg) ==
  LET before == SubSeq(s, 1, pos)
      nl == {i \in 1..pos : s[i] = "\n"}
      line_num == IF pos = 0 THEN 0
                  ELSE Cardinality(nl) + (IF s[pos] = "\n" THEN 0 ELSE 1)
      after == {i \in (pos + 1)..Len(s) : s[i] = "\n"}
      line_end == IF after = {} THEN Len(s)
                  ELSE (CHOOSE i \in after : \A j \in after : i <= j) - 1
      line_start == IF nl = {} THEN 0 ELSE CHOOSE i \in nl : \A j \in nl : j <= i
  IN  [kind |-> "error", msg |-> msg, line_num |-> line_num,
       line |-> SubSeq(s, line_start + 1, line_end), column |-> pos - line_start]

NoInput == [kind |-> "error",
            msg |-> "Didn't find any input. Give me something to parse next time!"]

TokensOk(tokens) == [ok |-> TRUE, tokens |-> tokens]
Failed(err) == [ok |-> FALSE, err |-> err]

RECURSIVE tokenize_loop(_, _, _)

\* tokenize_loop with the end-of-input marker put at the length of the whole input.
tokenize_loop_eof_untrimmed(s, unprocessed, result) ==
  IF unprocessed = <<>>
  THEN TokensOk(Append(result, <<Tok("EOF"), Len(s)>>))
  ELSE LET r == eat_token(unprocessed)
       IN  IF ~r.ok THEN Failed(print_err(s, Len(s) - r.err.rest_len, r.err.msg))
           ELSE tokenize_loop(s, skip_whitespace(r.rest),
                              Append(result, <<r.token, Len(s) - Len(unprocessed)>>))

\* The while loop of tokenize.
tokenize_loop(s, unprocessed, result) ==
  IF unprocessed = <<>>
  THEN TokensOk(Append(result, <<Tok("EOF"), Len(trim_end(s))>>))
  ELSE LET r == eat_token(unprocessed)
       IN  IF ~r.ok THEN Failed(print_err(s, Len(s) - r.err.rest_len, r.err.msg))
           ELSE tokenize_loop(s, skip_whitespace(r.rest),
                              Append(result, <<r.token, Len(s) - Len(unprocessed)>>))

tokenize(s) ==
  LET unprocessed == skip_whitespace(s)
  IN  IF unprocessed = <<>> THEN Failed(NoInput)
      ELSE tokenize_loop(s, unprocessed, <<>>)

\* ---------------------------------------------------------------- expressions

Literal(val) == [kind |-> "Literal", val |-> val]
VarDeclaration(name, expr) == [kind |-> "VarDeclaration", name |-> name, expr |-> expr]
Var(name) == [kind |-> "Var", name |-> name]
PrintExpr(expr) == [kind |-> "Print", expr |-> expr]
Binary(kind, left, right) == [kind |-> kind, left |-> left, right |-> right]

int(val) == Literal(VInt(val))
float(val) == Literal(VFloat(val))
boolean(val) == Literal(VBool(val))
negative(val) == [kind |-> "Negative", expr |-> val]
add(left, right) == Binary("Addition", left, right)
subtract(left, right) == Binary("Subtraction", left, right)
multiply(left, right) == Binary("Multiplication", left, right)
divide(left, right) == Binary("Division", left, right)
equality(left, right) == Binary("Equality", left, right)
conditional(cond, val_if_true, val_if_false) ==
  [kind |-> "Conditional", cond |-> cond,
   val_if_true |-> val_if_true, val_if_false |-> val_if_false]

\* ---------------------------------------------------------------- parser

\* A token of the list is the pair <<Token, offset>>.  tokens[0] and &tokens[1..]
\* panic on an empty slice: every rule that indexes answers OutOfBounds there.
parser_first(tokens) == tokens[1]
eat_one(tokens) == <<Tail(tokens), Head(tokens)>>
skip_one(tokens) == Tail(tokens)

POk(tokens, expr) == [st |-> "Ok", rest |-> tokens, expr |-> expr]
PErr(token, msg) == [st |-> "Err", token |-> token, msg |-> msg]
OutOfBounds == [st |-> "Panic", msg |-> "index out of bounds"]

RECURSIVE parse_conditional(_), parse_additive(_), parse_multiplicative(_), parse_primary(_)
RECURSIVE conditional_loop(_, _), additive_loop(_, _), multiplicative_loop(_, _)

\* The `?` of the rules: an error (or a panic) of a sub-rule is the rule's result.
\* Each rule below hands the result r of a sub-rule to the step that follows it.

\* The body of the loop of parse_multiplicative after its parse_primary.
multiplicative_fold(type, expr, r) ==
  IF r.st # "Ok" THEN r
  ELSE multiplicative_loop(r.rest, IF type = "Star" THEN multiply(expr, r.expr)
                                   ELSE divide(expr, r.expr))

\* The loop of parse_multiplicative.
multiplicative_loop(tokens, expr) ==
  IF tokens = <<>> THEN OutOfBounds
  ELSE IF parser_first(tokens)[1].type \in {"Star", "Slash"}
  THEN multiplicative_fold(parser_first(tokens)[1].type, expr,
                           parse_primary(eat_one(tokens)[1]))
  ELSE POk(tokens, expr)

multiplicative_start(r) == IF r.st # "Ok" THEN r ELSE multiplicative_loop(r.rest, r.expr)

parse_multiplicative(tokens) == multiplicative_start(parse_primary(tokens))

\* The body of the loop of parse_additive after its parse_multiplicative.
additive_fold(type, expr, r) ==
  IF r.st # "Ok" THEN r
  ELSE additive_loop(r.rest, IF type = "Plus" THEN add(expr, r.expr)
                             ELSE subtract(expr, r.expr))

\* additive_fold taking the whole rest of the chain as the right operand, with
\* additive_loop_right.
additive_fold_right(type, expr, r) ==
  IF r.st # "Ok" THEN r
  ELSE POk(r.rest, IF type = "Plus" THEN add(expr, r.expr) ELSE subtract(expr, r.expr))

\* additive_loop folding to the right: the rest of the chain becomes the right operand.
additive_loop_right(tokens, expr) ==
  IF tokens = <<>> THEN OutOfBounds
  ELSE IF parser_first(tokens)[1].type \in {"Plus", "Minus"}
  THEN additive_fold_right(parser_first(tokens)[1].type, expr,
                           parse_additive(eat_one(tokens)[1]))
  ELSE POk(tokens, expr)

\* The loop of parse_additive.
additive_loop(tokens, expr) ==
  IF tokens = <<>> THEN OutOfBounds
  ELSE IF parser_first(tokens)[1].type \in {"Plus", "Minus"}
  THEN additive_fold(parser_first(tokens)[1].type, expr,
                     parse_multiplicative(eat_one(tokens)[1]))
  ELSE POk(tokens, expr)

additive_start(r) == IF r.st # "Ok" THEN r ELSE additive_loop(r.rest, r.expr)

parse_additive(tokens) == additive_start(parse_multiplicative(tokens))

\* The body of the loop of parse_conditional after its parse_additive.
conditional_fold(expr, r) ==
  IF r.st # "Ok" THEN r ELSE conditional_loop(r.rest, equality(expr, r.expr))

\* The loop of parse_conditional.
conditional_loop(tokens, expr) ==
  IF tokens = <<>> THEN OutOfBounds
  ELSE IF parser_first(tokens)[1].type = "DoubleEquals"
  THEN conditional_fold(expr, parse_additive(eat_one(tokens)[1]))
  ELSE POk(tokens, expr)

conditional_start(r) == IF r.st # "Ok" THEN r ELSE conditional_loop(r.rest, r.expr)

parse_conditional(tokens) == conditional_start(parse_additive(tokens))

\* Expr::VarDeclaration(name, expr) around the initializer.
let_done(name, r) == IF r.st # "Ok" THEN r ELSE POk(r.rest, VarDeclaration(name, r.expr))

\* parse_let skipping the token after the name without looking at it.
parse_let_unchecked(tokens) ==
  IF tokens = <<>> THEN OutOfBounds
  ELSE IF parser_first(tokens)[1].type = "Name"
  THEN IF skip_one(tokens) = <<>> THEN OutOfBounds
       ELSE let_done(parser_first(tokens)[1].name,
                     parse_conditional(skip_one(skip_one(tokens))))
  ELSE PErr(parser_first(tokens), "Hey, I expected a name of a variable right here")

\* The `let` arm of parse_primary; tokens follow the keyword.
parse_let(tokens) ==
  IF tokens = <<>> THEN OutOfBounds
  ELSE IF parser_first(tokens)[1].type = "Name"
  THEN IF skip_one(tokens) = <<>> THEN OutOfBounds
       ELSE IF parser_first(skip_one(tokens))[1] # Tok("Equals")
       THEN PErr(parser_first(skip_one(tokens)), "Hey, I expected \"=\" right here")
       ELSE let_done(parser_first(tokens)[1].name,
                     parse_conditional(skip_one(skip_one(tokens))))
  ELSE PErr(parser_first(tokens), "Hey, I expected a name of a variable right here")

\* The `if` arm of parse_primary after the false branch.
if_done(cond, val_if_true, f) ==
  IF f.st # "Ok" THEN f ELSE POk(f.rest, conditional(cond, val_if_true, f.expr))

\* The `if` arm of parse_primary after the true branch.
if_else(cond, t) ==
  IF t.st # "Ok" THEN t
  ELSE IF t.rest = <<>> THEN OutOfBounds
  ELSE IF parser_first(t.rest)[1] # Tok("Else")
  THEN PErr(parser_first(t.rest), "Hey, I expected an \"else\" keyword right here")
  ELSE if_done(cond, t.expr, parse_conditional(skip_one(t.rest)))

\* The `if` arm of parse_primary after the condition.
if_then(c) ==
  IF c.st # "Ok" THEN c
  ELSE IF c.rest = <<>> THEN OutOfBounds
  ELSE IF parser_first(c.rest)[1] # Tok("Then")
  THEN PErr(parser_first(c.rest), "Hey, I expected a \"then\" keyword right here (conditional expressions look like this: if *condition* then *value* else *value*)")
  ELSE if_else(c.expr, parse_conditional(skip_one(c.rest)))

\* The `if` arm of parse_primary; tokens follow the keyword.
parse_if(tokens) == if_then(parse_conditional(tokens))

\* The `(` arm of parse_primary after the inner expression.
paren_close(r) ==
  IF r.st # "Ok" THEN r
  ELSE IF r.rest = <<>> THEN OutOfBounds
  ELSE IF parser_first(r.rest)[1] # Tok("RightParen")
  THEN PErr(parser_first(r.rest), "Hey, I expected a closing parenthesis here")
  ELSE POk(skip_one(r.rest), r.expr)

\* The `(` arm of parse_primary; tokens follow the parenthesis.
parse_paren(tokens) == paren_close(parse_conditional(tokens))

\* The unary `-` arm of parse_primary after its operand.
negative_done(r) == IF r.st # "Ok" THEN r ELSE POk(r.rest, negative(r.expr))

\* The `print` arm of parse_primary after its operand.
print_done(r) == IF r.st # "Ok" THEN r ELSE POk(r.rest, PrintExpr(r.expr))

\* parse_primary after eat_one gave the token and the tokens that follow it.
primary_arm(tokens, token) ==
  CASE token[1].type = "LeftParen" -> parse_paren(tokens)
    [] token[1].type = "Int" -> POk(tokens, int(token[1].int))
    [] token[1].type = "Float" -> POk(tokens, float(token[1].float))
    [] token[1].type = "Minus" -> negative_done(parse_primary(tokens))
    [] token[1].type = "LetKeyword" -> parse_let(tokens)
    [] token[1].type = "PrintKeyword" -> print_done(parse_conditional(tokens))
    [] token[1].type = "Name" -> POk(tokens, Var(token[1].name))
    [] token[1].type = "True" -> POk(tokens, boolean(TRUE))
    [] token[1].type = "False" -> POk(tokens, boolean(FALSE))
    [] token[1].type = "If" -> parse_if(tokens)
    [] token[1].type = "EOF" ->
         PErr(token, "Hey, I didn't expect the input to end right here")
    [] OTHER -> PErr(token, "Hey, I didn't expect this thing right here")

parse_primary(tokens) ==
  IF tokens = <<>> THEN OutOfBounds
  ELSE primary_arm(eat_one(tokens)[1], eat_one(tokens)[2])

ParsedOk(exprs) == [st |-> "Ok", exprs |-> exprs]
ParsedErr(err) == [st |-> "Err", err |-> err]

RECURSIVE parse_tokens(_, _, _)

\* parse_step returning the expressions parsed before the error.
parse_step_partial(s, expressions, r) ==
  CASE r.st = "Ok" -> parse_tokens(s, r.rest, Append(expressions, r.expr))
    [] r.st = "Err" -> ParsedOk(expressions)
    [] OTHER -> r

\* The body of the loop of parse after its parse_conditional.
parse_step(s, expressions, r) ==
  CASE r.st = "Ok" -> parse_tokens(s, r.rest, Append(expressions, r.expr))
    [] r.st = "Err" -> ParsedErr(print_err(s, r.token[2], r.msg))
    [] OTHER -> r

\* The while loop of parse, on the token list tokenize returned.
parse_tokens(s, tokens, expressions) ==
  IF tokens = <<>> THEN OutOfBounds
  ELSE IF parser_first(tokens)[1] = Tok("EOF") THEN ParsedOk(expressions)
  ELSE parse_step(s, expressions, parse_conditional(tokens))

\* parse after tokenize.
parse_tokenized(s, t) ==
  IF ~t.ok THEN ParsedErr(t.err) ELSE parse_tokens(s, t.tokens, <<>>)

parse(s) == parse_tokenized(s, tokenize(s))

\* ---------------------------------------------------------------- evaluator

\* Value::f64.  The cast of an i64 is exact for the modelled widths.
f64(v) ==
  CASE v.t = "Float" -> v.f
    [] v.t = "Int" -> Rat(v.n, 1)
    [] v.t = "Bool" -> IF v.b THEN Rat(1, 1) ELSE Rat(0, 1)

\* IEEE arithmetic on the rational model (the sign of a zero is not kept).
fneg(a) == [n |-> -a.n, d |-> a.d]

fadd(a, b) ==
  IF IsNaN(a) \/ IsNaN(b) THEN NaN
  ELSE IF IsInf(a) /\ IsInf(b) THEN (IF a.n = b.n THEN a ELSE NaN)
  ELSE IF IsInf(a) THEN a
  ELSE IF IsInf(b) THEN b
  ELSE Rat(a.n * b.d + b.n * a.d, a.d * b.d)

fsub(a, b) == fadd(a, fneg(b))

fmul(a, b) ==
  IF IsNaN(a) \/ IsNaN(b) THEN NaN
  ELSE IF IsInf(a) \/ IsInf(b) THEN Rat(a.n * b.n, 0)
  ELSE Rat(a.n * b.n, a.d * b.d)

fdiv(a, b) ==
  IF IsNaN(a) \/ IsNaN(b) THEN NaN
  ELSE IF IsInf(a) /\ IsInf(b) THEN NaN
  ELSE IF IsInf(a) THEN Rat(IF b.n < 0 THEN -a.n ELSE a.n, 0)
  ELSE IF IsInf(b) THEN Rat(0, 1)
  ELSE IF b.n < 0 THEN Rat(-(a.n * b.d), a.d * (-b.n))
  ELSE Rat(a.n * b.d, a.d * b.n)

\* f64::abs(x) < 0.000_001
EpsilonInverse == 1000000
abs_below_epsilon(x) == x.d # 0 /\ Abs(x.n) <= (x.d - 1) \div EpsilonInverse

\* ---- i64 arithmetic of the build

Wrap(x) == ((x - MinInt) % (2 ^ IntBits)) + MinInt

IntOk(n) == [ok |-> TRUE, val |-> VInt(n)]
IntPanic(msg) == [ok |-> FALSE, msg |-> msg]

\* +, - and * on i64: an overflow panics with overflow checks on, wraps without.
int_result(x, what) ==
  IF MinInt <= x /\ x <= MaxInt THEN IntOk(x)
  ELSE IF overflow_checks THEN IntPanic(what)
  ELSE IntOk(Wrap(x))

\* / on i64: truncates toward zero; panics on a zero divisor and on MIN / -1.
int_div(l, r) ==
  IF r = 0 THEN IntPanic("attempt to divide by zero")
  ELSE IF l = MinInt /\ r = -1 THEN IntPanic("attempt to divide with overflow")
  ELSE LET q == Abs(l) \div Abs(r)
       IN  IntOk(IF (l < 0) # (r < 0) THEN -q ELSE q)

\* impl Display for Value: the decimal digits of an i64.
RECURSIVE NatToStr(_)
NatToStr(n) == IF n < 10 THEN <<DigitChar(n)>> ELSE Append(NatToStr(n \div 10), DigitChar(n % 10))

IntToStr(n) == IF n < 0 THEN <<"-">> \o NatToStr(-n) ELSE NatToStr(n)

\* impl Display for Value.  A Float prints as the shortest decimal that reads back as
\* the same f64; it is kept as the number.
fmt(v) ==
  CASE v.t = "Int" -> [kind |-> "text", text |-> IntToStr(v.n)]
    [] v.t = "Bool" -> [kind |-> "text",
                        text |-> IF v.b THEN <<"t", "r", "u", "e">>
                                 ELSE <<"f", "a", "l", "s", "e">>]
    [] v.t = "Float" -> [kind |-> "float", f |-> v.f]

\* ---- effects, in the order they happen

Stdout(line) == [ev |-> "stdout", line |-> line]
Insert(name, val) == [ev |-> "insert", name |-> name, val |-> val]
\* HashMap::get and what it returned.
Some(val) == [some |-> TRUE, val |-> val]
Nothing == [some |-> FALSE]
Get(name, found) == [ev |-> "get", name |-> name, found |-> found]

\* HashMap::insert
insert(map, name, val) ==
  [n \in DOMAIN map \cup {name} |-> IF n = name THEN val ELSE map[n]]

\* The outcome of an evaluation: the value, the environment it left, the effects so far.
Value(val, s) == [st |-> "Value", val |-> val, env |-> s.env, trace |-> s.trace]
Panic(msg, s) == [st |-> "Panic", msg |-> msg, env |-> s.env, trace |-> s.trace]

Arith(r, s) == IF r.ok THEN Value(r.val, s) ELSE Panic(r.msg, s)

RECURSIVE eval(_, _)

eval_multiplication(left, right, s) ==
  LET l == eval(left, s)
  IN  IF l.st = "Panic" THEN l
      ELSE LET r == eval(right, l)
           IN  IF r.st = "Panic" THEN r
               ELSE IF l.val.t = "Int" /\ r.val.t = "Int"
               THEN Arith(int_result(l.val.n * r.val.n, "attempt to multiply with overflow"), r)
               ELSE Value(VFloat(fmul(f64(l.val), f64(r.val))), r)

eval_division(left, right, s) ==
  LET l == eval(left, s)
  IN  IF l.st = "Panic" THEN l
      ELSE LET r == eval(right, l)
           IN  IF r.st = "Panic" THEN r
               ELSE IF l.val.t = "Int" /\ r.val.t = "Int"
               THEN Arith(int_div(l.val.n, r.val.n), r)
               ELSE Value(VFloat(fdiv(f64(l.val), f64(r.val))), r)

\* eval_addition evaluating its right operand first.
eval_addition_right_first(left, right, s) ==
  LET r == eval(right, s)
  IN  IF r.st = "Panic" THEN r
      ELSE LET l == eval(left, r)
           IN  IF l.st = "Panic" THEN l
               ELSE IF l.val.t = "Int" /\ r.val.t = "Int"
               THEN Arith(int_result(l.val.n + r.val.n, "attempt to add with overflow"), l)
               ELSE Value(VFloat(fadd(f64(l.val), f64(r.val))), l)

eval_addition(left, right, s) ==
  LET l == eval(left, s)
  IN  IF l.st = "Panic" THEN l
      ELSE LET r == eval(right, l)
           IN  IF r.st = "Panic" THEN r
               ELSE IF l.val.t = "Int" /\ r.val.t = "Int"
               THEN Arith(int_result(l.val.n + r.val.n, "attempt to add with overflow"), r)
               ELSE Value(VFloat(fadd(f64(l.val), f64(r.val))), r)

eval_subtraction(left, right, s) ==
  LET l == eval(left, s)
  IN  IF l.st = "Panic" THEN l
      ELSE LET r == eval(right, l)
           IN  IF r.st = "Panic" THEN r
               ELSE IF l.val.t = "Int" /\ r.val.t = "Int"
               THEN Arith(int_result(l.val.n - r.val.n, "attempt to subtract with overflow"), r)
               ELSE Value(VFloat(fsub(f64(l.val), f64(r.val))), r)

eval_negative(val, s) ==
  LET v == eval(val, s)
  IN  IF v.st = "Panic" THEN v
      ELSE CASE v.val.t = "Int" ->
                  Arith(int_result(-v.val.n, "attempt to negate with overflow"), v)
             [] v.val.t = "Float" -> Value(VFloat(fneg(v.val.f)), v)
             [] v.val.t = "Bool" -> Value(VBool(~v.val.b), v)

\* eval_var_declaration keeping the binding a name already has.
eval_var_declaration_keep_first(name, expr, s) ==
  LET v == eval(expr, s)
  IN  IF v.st = "Panic" THEN v
      ELSE IF name \in DOMAIN v.env THEN v
      ELSE [st |-> "Value", val |-> v.val,
            env |-> insert(v.env, name, v.val),
            trace |-> Append(v.trace, Insert(name, v.val))]

eval_var_declaration(name, expr, s) ==
  LET v == eval(expr, s)
  IN  IF v.st = "Panic" THEN v
      ELSE [st |-> "Value", val |-> v.val,
            env |-> insert(v.env, name, v.val),
            trace |-> Append(v.trace, Insert(name, v.val))]

\* env.vars.get(name).unwrap()
eval_var(name, s) ==
  LET found == IF name \in DOMAIN s.env THEN Some(s.env[name]) ELSE Nothing
      after == [env |-> s.env, trace |-> Append(s.trace, Get(name, found))]
  IN  IF found.some THEN Value(found.val, after)
      ELSE Panic("called Option::unwrap() on a None value", after)

eval_print(val, s) ==
  LET v == eval(val, s)
  IN  IF v.st = "Panic" THEN v
      ELSE [v EXCEPT !.trace = Append(v.trace, Stdout(fmt(v.val)))]

eval_equality(left, right, s) ==
  LET l == eval(left, s)
  IN  IF l.st = "Panic" THEN l
      ELSE LET r == eval(right, l)
           IN  IF r.st = "Panic" THEN r
               ELSE Value(VBool(abs_below_epsilon(fsub(f64(l.val), f64(r.val)))), r)

\* eval_conditional taking every value but Bool(false) and a zero for true.
eval_conditional_truthy(cond, val_if_true, val_if_false, s) ==
  LET c == eval(cond, s)
  IN  IF c.st = "Panic" THEN c
      ELSE IF f64(c.val) # Rat(0, 1) THEN eval(val_if_true, c)
      ELSE eval(val_if_false, c)

eval_conditional(cond, val_if_true, val_if_false, s) ==
  LET c == eval(cond, s)
  IN  IF c.st = "Panic" THEN c
      ELSE IF c.val = VBool(TRUE) THEN eval(val_if_true, c)
      ELSE eval(val_if_false, c)

\* Expr::eval
eval(e, s) ==
  CASE e.kind = "Literal" -> Value(e.val, s)
    [] e.kind = "VarDeclaration" -> eval_var_declaration(e.name, e.expr, s)
    [] e.kind = "Var" -> eval_var(e.name, s)
    [] e.kind = "Print" -> eval_print(e.expr, s)
    [] e.kind = "Multiplication" -> eval_multiplication(e.left, e.right, s)
    [] e.kind = "Division" -> eval_division(e.left, e.right, s)
    [] e.kind = "Addition" -> eval_addition(e.left, e.right, s)
    [] e.kind = "Subtraction" -> eval_subtraction(e.left, e.right, s)
    [] e.kind = "Negative" -> eval_negative(e.expr, s)
    [] e.kind = "Equality" -> eval_equality(e.left, e.right, s)
    [] e.kind = "Conditional" ->
         eval_conditional(e.cond, e.val_if_true, e.val_if_false, s)

\* ---------------------------------------------------------------- driver

Text(chars) == [kind |-> "text", text |-> chars]

Prompt == Text(<<"m", "a", "t", "h", ">", " ">>)

\* The `for expr in exprs { println!("{}", expr.eval(env)) }` of interact.
RECURSIVE eval_all(_, _)
eval_all(exprs, s) ==
  IF exprs = <<>> THEN [st |-> "Done", env |-> s.env, trace |-> s.trace]
  ELSE LET r == eval(Head(exprs), s)
       IN  IF r.st = "Panic" THEN r
           ELSE eval_all(Tail(exprs),
                         [env |-> r.env, trace |-> Append(r.trace, Stdout(fmt(r.val)))])

\* interact, on the line read_line returned and its parse.
interact(e, line, parsed) ==
  LET s == [env |-> e, trace |-> <<Stdout(Prompt)>>]
  IN  CASE parsed.st = "Ok" -> eval_all(parsed.exprs, s)
        [] parsed.st = "Err" ->
             [st |-> "Done", env |-> e, trace |-> Append(s.trace, Stdout(parsed.err))]
        [] OTHER -> Panic(parsed.msg, s)

\* ---------------------------------------------------------------- the session

W_let == <<"l", "e", "t">>
W_print == <<"p", "r", "i", "n", "t">>
W_x == <<"x">>
W_y == <<"y">>

RECURSIVE Join(_)
Join(words) ==
  IF words = <<>> THEN <<>>
  ELSE IF Len(words) = 1 THEN Head(words)
  ELSE Head(words) \o <<" ">> \o Join(Tail(words))

\* The top-level expressions a user types.
Statements ==
  { <<W_let, W_x, <<"=">>, <<"1">>>>,
    <<W_let, W_x, <<"=">>, <<"2">>>>,
    <<W_let, W_y, <<"=">>, W_x, <<"+">>, <<"1">>>>,
    <<W_let, W_x, <<"=">>, W_x, <<"*">>, <<"3">>>>,
    <<W_x>>,
    <<W_x, <<"-">>, W_y>>,
    <<<<"(">>, W_let, W_x, <<"=">>, <<"1">>, <<")">>, <<"+">>, W_x>>,
    <<W_print, <<"1">>, <<"+">>, W_print, W_x>>,
    <<<<"1">>, <<"/">>, <<"0">>>>,
    <<<<"(">>, <<"1">>, <<"+">>, <<"2">>>>,
    <<<<"1">>, <<"+">>>>,
    <<W_let, <<"=">>, <<"1">>>>,
    <<<<"$">>>> }

\* The lines read_line returns: one or two statements and the line feed.
Lines ==
  {Join(a) \o <<"\n">> : a \in Statements}
    \cup {Join(a) \o <<" ">> \o Join(b) \o <<"\n">> : a \in Statements, b \in Statements}

\* parse, tabulated over the lines.
ParseOf == [line \in Lines |-> parse(line)]

EmptyEnv == [n \in {} |-> None]

Init ==
  /\ env = EmptyEnv
  /\ env0 = EmptyEnv
  /\ trace = <<>>
  /\ input = <<>>
  /\ crashed = FALSE
  /\ lines = 0
  /\ overflow_checks \in BOOLEAN
  /\ res = None

\* One call of interact from the loop of run.
Interact(line) ==
  /\ ~crashed
  /\ lines < MaxLines
  /\ LET parsed == ParseOf[line]
         r == interact(env, line, parsed)
     IN  /\ env' = r.env
         /\ env0' = env
         /\ trace' = r.trace
         /\ crashed' = (r.st = "Panic")
         /\ res' = parsed
  /\ input' = line
  /\ lines' = lines + 1
  /\ UNCHANGED overflow_checks

Next == \E line \in Lines : Interact(line)

Spec == Init /\ [][Next]_vars

\* ---------------------------------------------------------------- tokenize alone

\* Longest input of the lexer's specification, in pieces.
MaxPieces == 3

W_true == <<"t", "r", "u", "e">>
W_false == <<"f", "a", "l", "s", "e">>
W_if == <<"i", "f">>
W_then == <<"t", "h", "e", "n">>
W_else == <<"e", "l", "s", "e">>

Pieces ==
  {W_let, W_print, W_true, W_false, W_if, W_then, W_else, W_x,
   <<"=">>, <<" ">>, <<"1">>, <<"\n">>, <<".">>, <<"$">>}

RECURSIVE Flatten(_)
Flatten(seqs) == IF seqs = <<>> THEN <<>> ELSE Head(seqs) \o Flatten(Tail(seqs))

Idle ==
  /\ env = EmptyEnv
  /\ env0 = EmptyEnv
  /\ trace = <<>>
  /\ crashed = FALSE
  /\ lines = 0
  /\ res = None

\* Every text of at most MaxPieces pieces.
LexInit ==
  /\ Idle
  /\ overflow_checks = FALSE
  /\ \E n \in 0..MaxPieces : \E ps \in [1..n -> Pieces] : input = Flatten(ps)

Tokenize ==
  /\ res = None
  /\ res' = tokenize(input)
  /\ UNCHANGED <<env, env0, trace, input, crashed, lines, overflow_checks>>

SpecLex == LexInit /\ [][Tokenize]_vars

Tokenized == res # None /\ res.ok

\* The token table of the specification.
KeywordOf(word) ==
  CASE word = W_let -> Tok("LetKeyword")
    [] word = W_print -> Tok("PrintKeyword")
    [] word = W_true -> Tok("True")
    [] word = W_false -> Tok("False")
    [] word = W_if -> Tok("If")
    [] word = W_then -> Tok("Then")
    [] word = W_else -> Tok("Else")
    [] OTHER -> TokName(word)

\* The maximal run of characters of class that starts at s[p].
RunAt(s, p, class) == eat_while(SubSeq(s, p, Len(s)), class)[2]
StartsRun(s, p, class) == s[p] \in class /\ (p = 1 \/ s[p - 1] \notin class)

TokenAt(tokens, pos) == {tokens[i][1] : i \in {j \in 1..Len(tokens) : tokens[j][2] = pos}}

\* C4: after a successful tokenize, every maximal run of letters is one token, the
\* keyword the table gives for let, print, true, false, if, then, else and a Name
\* holding the run otherwise; a pair of adjacent '=' is one DoubleEquals token and a
\* lone '=' is Equals.
C4_TokenTable ==
  Tokenized =>
    /\ \A p \in 1..Len(input) :
         StartsRun(input, p, Alphabetic) =>
           TokenAt(res.tokens, p - 1) = {KeywordOf(RunAt(input, p, Alphabetic))}
    /\ \A p \in 1..Len(input) :
         StartsRun(input, p, {"="}) =>
           LET run == Len(RunAt(input, p, {"="}))
           IN  \A k \in 0..(run - 1) :
                 TokenAt(res.tokens, p - 1 + k) =
                   IF k % 2 = 1 THEN {}
                   ELSE IF k + 1 < run THEN {Tok("DoubleEquals")} ELSE {Tok("Equals")}

\* str::trim
Trimmed(s) == trim_end(skip_whitespace(s))

Last(seq) == seq[Len(seq)]

EofCount(tokens) == Cardinality({i \in 1..Len(tokens) : tokens[i][1] = Tok("EOF")})

\* The character a token of this type starts with.
FirstChars(tok) ==
  CASE tok.type \in {"Int", "Float"} -> Digits
    [] tok.type \in {"Name", "LetKeyword", "PrintKeyword"} -> Alphabetic
    [] tok.type = "Plus" -> {"+"}
    [] tok.type = "Minus" -> {"-"}
    [] tok.type = "Star" -> {"*"}
    [] tok.type = "Slash" -> {"/"}
    [] tok.type = "LeftParen" -> {"("}
    [] tok.type = "RightParen" -> {")"}
    [] tok.type = "Equals" -> {"="}
    [] OTHER -> {}

\* Every token but the last sits at the offset, in the original input, of the first
\* character of its lexeme; the lexemes follow each other with only whitespace between.
OffsetsOfFirstChars(s, tokens) ==
  \A i \in 1..(Len(tokens) - 1) :
    LET pos == tokens[i][2]
        prev == IF i = 1 THEN 0 ELSE tokens[i - 1][2] + 1
    IN  /\ prev <= pos /\ pos < Len(s)
        /\ s[pos + 1] \in FirstChars(tokens[i][1])
        /\ tokens[i][1].type = "Name" =>
             SubSeq(s, pos + 1, pos + Len(tokens[i][1].name)) = tokens[i][1].name
        /\ i = 1 => \A j \in 1..pos : s[j] \in Whitespace

OneEofLast(tokens) ==
  /\ tokens # <<>>
  /\ Last(tokens)[1] = Tok("EOF")
  /\ EofCount(tokens) = 1

\* C8 as stated: the end-of-input marker is the one last token, at the length of the
\* trimmed input (whitespace removed at both ends), and the other tokens sit at the
\* offsets of their first characters.
C8_EofAtTrimmedLength ==
  Tokenized =>
    /\ OneEofLast(res.tokens)
    /\ Last(res.tokens)[2] = Len(Trimmed(input))
    /\ OffsetsOfFirstChars(input, res.tokens)

\* C8 amended: the end-of-input marker is the one last token, at the length of the
\* input with only its trailing whitespace removed (leading whitespace counts), and
\* the other tokens sit at the offsets of their first characters.
C8_EofAtTrimEndLength ==
  Tokenized =>
    /\ OneEofLast(res.tokens)
    /\ Last(res.tokens)[2] = Len(trim_end(input))
    /\ OffsetsOfFirstChars(input, res.tokens)

\* A successful tokenize of an input with whitespace at both ends and between tokens.
C8_Witness ==
  /\ Tokenized
  /\ Len(res.tokens) >= 2
  /\ input[1] \in Whitespace
  /\ Last(input) \in Whitespace
  /\ Last(res.tokens)[2] < Len(input)
  /\ Last(res.tokens)[2] > Len(Trimmed(input))

\* ---------------------------------------------------------------- parse alone

\* Longest token list of the parser's specification, in phrases.
MaxPhrases == 3
\* Longest chain of binary operators of the parser's specification, in operands.
MaxOperands == 4

Half == Rat(1, 2)

Phrases ==
  { <<TokInt(1)>>, <<TokName(W_x)>>,
    <<Tok("Plus")>>, <<Tok("Minus")>>, <<Tok("Star")>>, <<Tok("DoubleEquals")>>,
    <<Tok("LeftParen")>>, <<Tok("RightParen")>>,
    <<Tok("LetKeyword")>>, <<Tok("LetKeyword"), TokName(W_x)>>,
    <<Tok("LetKeyword"), TokName(W_x), Tok("Equals")>>,
    <<Tok("PrintKeyword")>>,
    <<Tok("If")>>, <<Tok("If"), Tok("True"), Tok("Then")>>, <<TokInt(2), Tok("Else")>> }

BinaryOperators == {"Plus", "Minus", "Star", "Slash", "DoubleEquals"}

\* The operands of a chain, by position.
Operand(i) ==
  CASE i % 4 = 1 -> TokInt(i)
    [] i % 4 = 2 -> TokName(W_x)
    [] i % 4 = 3 -> TokFloat(Half)
    [] OTHER -> TokName(W_y)

\* operand operator operand ... operand
Chain(ops) ==
  [i \in 1..(2 * Len(ops) + 1) |->
     IF i % 2 = 1 THEN Operand((i + 1) \div 2) ELSE Tok(ops[i \div 2])]

Chains == UNION {{Chain(ops) : ops \in [1..n -> BinaryOperators]} : n \in 0..(MaxOperands - 1)}

\* The list tokenize returns for these tokens: offsets in order, the end-of-input
\* marker last.
Positioned(toks) ==
  [i \in 1..(Len(toks) + 1) |-> <<IF i <= Len(toks) THEN toks[i] ELSE Tok("EOF"), i - 1>>]

\* A text with one character for each token before the end-of-input marker.
TextOf(tokens) == [i \in 1..(Len(tokens) - 1) |-> "."]

\* Every chain, and every token list of at most MaxPhrases phrases.
ParseInit ==
  /\ Idle
  /\ overflow_checks = FALSE
  /\ \/ \E c \in Chains : input = Positioned(c)
     \/ \E n \in 0..MaxPhrases : \E ps \in [1..n -> Phrases] : input = Positioned(Flatten(ps))

ParseTokens ==
  /\ res = None
  /\ res' = parse_tokens(TextOf(input), input, <<>>)
  /\ UNCHANGED <<env, env0, trace, input, crashed, lines, overflow_checks>>

SpecParse == ParseInit /\ [][ParseTokens]_vars

Untagged(tokens) == [i \in 1..(Len(tokens) - 1) |-> tokens[i][1]]

IsChain(tokens) == Untagged(tokens) \in Chains

\* The binding strength of a binary operator.
Level(op) ==
  CASE op = "DoubleEquals" -> 0
    [] op \in {"Plus", "Minus"} -> 1
    [] op \in {"Star", "Slash"} -> 2

NodeOf(op, left, right) ==
  CASE op = "DoubleEquals" -> Binary("Equality", left, right)
    [] op = "Plus" -> Binary("Addition", left, right)
    [] op = "Minus" -> Binary("Subtraction", left, right)
    [] op = "Star" -> Binary("Multiplication", left, right)
    [] op = "Slash" -> Binary("Division", left, right)

LeafOf(tok) ==
  CASE tok.type = "Int" -> Literal(VInt(tok.int))
    [] tok.type = "Float" -> Literal(VFloat(tok.float))
    [] tok.type = "Name" -> Var(tok.name)

\* The tree of the chain toks[lo..hi]: split at the last of the loosest operators.
RECURSIVE TreeOf(_, _, _)
TreeOf(toks, lo, hi) ==
  IF lo = hi THEN LeafOf(toks[lo])
  ELSE LET ops == {i \in lo..hi : (i - lo) % 2 = 1}
           loosest == CHOOSE l \in 0..2 :
                        /\ \E i \in ops : Level(toks[i].type) = l
                        /\ \A i \in ops : Level(toks[i].type) >= l
           k == CHOOSE i \in ops :
                  /\ Level(toks[i].type) = loosest
                  /\ \A j \in ops : Level(toks[j].type) = loosest => j <= i
       IN  NodeOf(toks[k].type, TreeOf(toks, lo, k - 1), TreeOf(toks, k + 1, hi))

Parsed == res # None

\* A chain parses to the one tree TreeOf gives.
ChainTree ==
  (Parsed /\ IsChain(input)) =>
     res = ParsedOk(<<TreeOf(Untagged(input), 1, Len(input) - 1)>>)

\* a - b - c is Subtraction(Subtraction(a, b), c); a + b * c is
\* Addition(a, Multiplication(b, c)); a == b + c is Equality(a, Addition(b, c)).
ChainExamples ==
  LET a == LeafOf(Operand(1))
      b == LeafOf(Operand(2))
      c == LeafOf(Operand(3))
      ops == <<input[2][1].type, input[4][1].type>>
  IN  (Parsed /\ IsChain(input) /\ Len(input) = 6) =>
        /\ ops = <<"Minus", "Minus">> => res.exprs = <<subtract(subtract(a, b), c)>>
        /\ ops = <<"Plus", "Star">> => res.exprs = <<add(a, multiply(b, c))>>
        /\ ops = <<"DoubleEquals", "Plus">> => res.exprs = <<equality(a, add(b, c))>>

\* C1: a chain of operands joined by + - * / == parses to the one tree in which * and /
\* bind tighter than + and -, these bind tighter than ==, and operators of one level
\* group to the left.
C1_PrecedenceAndLeftAssociativity == ChainTree /\ ChainExamples

\* a - b - c has been parsed to Subtraction(Subtraction(a, b), c).
C1_Witness ==
  /\ Parsed
  /\ Untagged(input) = Chain(<<"Minus", "Minus">>)
  /\ res = ParsedOk(<<subtract(subtract(LeafOf(Operand(1)), LeafOf(Operand(2))),
                               LeafOf(Operand(3)))>>)

\* C10: on a token list that ends with its one end-of-input marker, no rule of the
\* parser indexes an empty slice: parse returns expressions or an error.
C10_NeverIndexesPastEof ==
  (Parsed /\ OneEofLast(input)) => res.st \in {"Ok", "Err"}

\* `let x =` then the end of the input has been refused at the end-of-input marker.
C10_Witness ==
  /\ Parsed
  /\ Untagged(input) = <<Tok("LetKeyword"), TokName(W_x), Tok("Equals")>>
  /\ res.st = "Err"
  /\ res.err.column = 3

\* ---------------------------------------------------------------- eval alone

IntLeaves == {int(MinInt), int(-1), int(0), int(1), int(2), int(MaxInt)}

Leaves ==
  IntLeaves \cup {float(Rat(0, 1)), float(Half), boolean(TRUE), boolean(FALSE),
                  Var(W_x), Var(W_y)}

Effects ==
  {VarDeclaration(W_x, int(1)), VarDeclaration(W_y, Var(W_x)),
   PrintExpr(int(2)), PrintExpr(Var(W_x))}

Operands == Leaves \cup Effects

BinaryKinds == {"Multiplication", "Division", "Addition", "Subtraction", "Equality"}

Conditions == Leaves \cup {equality(int(1), int(1)), VarDeclaration(W_x, boolean(TRUE))}

Branches == Effects \cup {int(1), int(2), Var(W_y), divide(int(1), int(0))}

Exprs ==
  Operands
    \cup {Binary(k, l, r) : k \in BinaryKinds, l \in Operands, r \in Operands}
    \cup {negative(o) : o \in Operands}
    \cup {PrintExpr(o) : o \in Operands}
    \cup {VarDeclaration(W_x, o) : o \in Operands}
    \cup {conditional(c, t, f) : c \in Conditions, t \in Branches, f \in Branches}

EvalEnvs ==
  {EmptyEnv, insert(EmptyEnv, W_x, VInt(1)),
   insert(insert(EmptyEnv, W_x, VInt(MaxInt)), W_y, VBool(TRUE))}

EvalInit ==
  /\ env \in EvalEnvs
  /\ env0 = env
  /\ trace = <<>>
  /\ crashed = FALSE
  /\ lines = 0
  /\ overflow_checks \in BOOLEAN
  /\ res = None
  /\ input \in {<<e>> : e \in Exprs} \cup {<<a, b>> : a \in Operands, b \in Operands}

Start == [env |-> env, trace |-> <<>>]

\* expr.eval(env) on one expression.
Evaluate ==
  /\ res = None
  /\ Len(input) = 1
  /\ res' = eval(input[1], Start)
  /\ env' = res'.env
  /\ trace' = res'.trace
  /\ crashed' = (res'.st = "Panic")
  /\ UNCHANGED <<env0, input, lines, overflow_checks>>

\* The loop of interact on the expressions of one input.
EvaluateAll ==
  /\ res = None
  /\ Len(input) > 1
  /\ res' = eval_all(input, Start)
  /\ env' = res'.env
  /\ trace' = res'.trace
  /\ crashed' = (res'.st = "Panic")
  /\ UNCHANGED <<env0, input, lines, overflow_checks>>

EvalNext == Evaluate \/ EvaluateAll

SpecEval == EvalInit /\ [][EvalNext]_vars

Evaluated == res # None /\ Len(input) = 1
Before == [env |-> env0, trace |-> <<>>]

IsInt(e) == e.kind = "Literal" /\ e.val.t = "Int"
IsLiteral(e) == e.kind = "Literal"

\* The quotient of two integers rounded toward zero.
Truncated(a, b) ==
  CHOOSE q \in -(Abs(a))..Abs(a) :
    /\ Abs(q * b) <= Abs(a)
    /\ Abs(a) - Abs(q * b) < Abs(b)
    /\ (q # 0 => ((q < 0) <=> ((a < 0) # (b < 0))))

IntResult(kind, a, b) ==
  CASE kind = "Addition" -> Wrap(a + b)
    [] kind = "Subtraction" -> Wrap(a - b)
    [] kind = "Multiplication" -> Wrap(a * b)
    [] kind = "Division" -> Wrap(Truncated(a, b))

\* C3: eval returns a Value unless it reaches an unbound Var or a Division of two
\* Ints by 0; +, -, * and / on any two Ints (the divisor not 0) give the wrapped,
\* truncated result, and a Division with a Float or Bool operand never faults.
C3_OnlyTwoFaults ==
  Evaluated =>
    LET e == input[1]
    IN  /\ res.st = "Panic" =>
             \/ /\ trace # <<>>
                /\ Last(trace).ev = "get"
                /\ ~Last(trace).found.some
             \/ res.msg = "attempt to divide by zero"
        /\ ( /\ e.kind \in BinaryKinds \ {"Equality"}
             /\ IsInt(e.left) /\ IsInt(e.right)
             /\ ~(e.kind = "Division" /\ e.right.val.n = 0) )
           => /\ res.st = "Value"
              /\ res.val = VInt(IntResult(e.kind, e.left.val.n, e.right.val.n))
        /\ ( /\ e.kind = "Division"
             /\ IsLiteral(e.left) /\ IsLiteral(e.right)
             /\ ~(IsInt(e.left) /\ IsInt(e.right)) )
           => res.st = "Value"

IsConditional == Evaluated /\ input[1].kind = "Conditional"

\* C6: a Conditional evaluates its condition once and then exactly one branch, whose
\* value it returns: the true branch when the condition is Bool(true), the false branch
\* for every other value; the other branch leaves no effect.
C6_ConditionalSelectsOneBranch ==
  IsConditional =>
    LET e == input[1]
        c == eval(e.cond, Before)
        t == eval(e.val_if_true, c)
        f == eval(e.val_if_false, c)
    IN  /\ c.st = "Panic" => res = c
        /\ (c.st = "Value" /\ c.val = VBool(TRUE)) => res = t
        /\ (c.st = "Value" /\ c.val # VBool(TRUE)) => res = f
        /\ c.st = "Value" =>
             LET chosen == IF c.val = VBool(TRUE) THEN e.val_if_true ELSE e.val_if_false
             IN  /\ SubSeq(trace, 1, Len(c.trace)) = c.trace
                 /\ SubSeq(trace, Len(c.trace) + 1, Len(trace))
                      = eval(chosen, [env |-> c.env, trace |-> <<>>]).trace
        /\ e = conditional(int(0), int(1), int(2)) => res.val = VInt(2)
        /\ e = conditional(boolean(TRUE), int(1), int(2)) => res.val = VInt(1)
        /\ (e.cond = int(0) /\ e.val_if_true \in Effects /\ IsLiteral(e.val_if_false)) =>
             trace = <<>> /\ env = env0

\* `if 0 then <declare x> else 2` has returned 2 and declared nothing.
C6_Witness ==
  /\ IsConditional
  /\ input[1] = conditional(int(0), VarDeclaration(W_x, int(1)), int(2))
  /\ res.st = "Value"
  /\ res.val = VInt(2)
  /\ env = EmptyEnv
  /\ trace = <<>>

IsBinary == Evaluated /\ input[1].kind \in BinaryKinds
IsDeclaration == Evaluated /\ input[1].kind = "VarDeclaration"
IsPair == res # None /\ Len(input) = 2

LeftThenRight ==
  IsBinary =>
    LET l == eval(input[1].left, Before)
        r == eval(input[1].right, l)
    IN  IF l.st = "Panic" THEN res = l
        ELSE /\ SubSeq(trace, 1, Len(l.trace)) = l.trace
             /\ SubSeq(trace, Len(l.trace) + 1, Len(trace))
                  = eval(input[1].right, [env |-> l.env, trace |-> <<>>]).trace
             /\ env = r.env
             /\ r.st = "Panic" => res = r

StoreAfterInitializer ==
  IsDeclaration =>
    LET v == eval(input[1].expr, Before)
    IN  IF v.st = "Panic" THEN res = v
        ELSE /\ trace = Append(v.trace, Insert(input[1].name, v.val))
             /\ env = insert(v.env, input[1].name, v.val)
             /\ res.val = v.val

TopLevelInOrder ==
  IsPair =>
    LET a == eval(input[1], Before)
        b == eval(input[2], [env |-> a.env, trace |-> Append(a.trace, Stdout(fmt(a.val)))])
    IN  IF a.st = "Panic" THEN res = a
        ELSE IF b.st = "Panic" THEN res = b
        ELSE trace = Append(b.trace, Stdout(fmt(b.val))) /\ env = b.env

DeclareThenUse == add(VarDeclaration(W_x, int(1)), Var(W_x))

\* C9: in a binary node the left operand is evaluated completely, its writes and prints
\* included, before the right operand starts, and the right operand sees the left's
\* bindings ((let x = 1) + x is 2); a declaration stores its binding after its
\* initializer was evaluated; the expressions of one input are evaluated in order.
C9_EffectsInSourceOrder ==
  /\ LeftThenRight
  /\ StoreAfterInitializer
  /\ TopLevelInOrder
  /\ (Evaluated /\ input[1] = DeclareThenUse) =>
       /\ res.val = VInt(2)
       /\ trace = <<Insert(W_x, VInt(1)), Get(W_x, Some(VInt(1)))>>

\* (let x = 1) + x has been evaluated to 2 where x was bound to the largest Int.
C9_Witness ==
  /\ Evaluated
  /\ input[1] = DeclareThenUse
  /\ W_x \in DOMAIN env0
  /\ env0[W_x] = VInt(MaxInt)
  /\ res.st = "Value"
  /\ res.val = VInt(2)

\* ---------------------------------------------------------------- claims on the session

Line(a) == Join(a) \o <<"\n">>
Line2(a, b) == Join(a) \o <<" ">> \o Join(b) \o <<"\n">>

Ran == res # None

Inserts(name, before) ==
  {j \in 1..(before - 1) : trace[j].ev = "insert" /\ trace[j].name = name}

Latest(set) == CHOOSE j \in set : \A k \in set : k <= j

\* What the most recent declaration of name left, as seen by the effect at index i.
LastWritten(name, i) ==
  IF Inserts(name, i) # {} THEN Some(trace[Latest(Inserts(name, i))].val)
  ELSE IF name \in DOMAIN env0 THEN Some(env0[name])
  ELSE Nothing

Names == {W_x, W_y}

SetTo1 == <<W_let, W_x, <<"=">>, <<"1">>>>
SetTo2 == <<W_let, W_x, <<"=">>, <<"2">>>>

\* The declarations of x by a literal, with the value each one stores.
Rebindings == {<<SetTo1, VInt(1)>>, <<SetTo2, VInt(2)>>}

\* The line ends with the declaration decl, and was evaluated to its end.
EndsWith(decl) ==
  \/ input = Line(decl)
  \/ \E a \in Statements : input = Line2(a, decl) /\ res.st = "Ok" /\ ~crashed

\* C2: every read of a variable returns the value of the most recent declaration of
\* that name, in this line or in an earlier one; the environment after a line holds,
\* for every name, the value of its most recent declaration, whatever the name held
\* before; a line `x` prints it, and `let x = 2 x` prints 2.
C2_LastWriteWins ==
  Ran =>
    /\ \A i \in 1..Len(trace) :
         trace[i].ev = "get" => trace[i].found = LastWritten(trace[i].name, i)
    /\ \A name \in Names :
         LastWritten(name, Len(trace) + 1) =
           IF name \in DOMAIN env THEN Some(env[name]) ELSE Nothing
    /\ DOMAIN env \subseteq Names
    /\ (input = Line(<<W_x>>) /\ W_x \in DOMAIN env0) =>
         trace = <<Stdout(Prompt), Get(W_x, Some(env0[W_x])), Stdout(fmt(env0[W_x]))>>
    /\ \A d \in Rebindings :
         /\ EndsWith(d[1]) => (W_x \in DOMAIN env /\ env[W_x] = d[2])
         /\ input = Line2(d[1], <<W_x>>) =>
              /\ \E i \in 1..Len(trace) : trace[i] = Get(W_x, Some(d[2]))
              /\ trace[Len(trace)] = Stdout(fmt(d[2]))
              /\ env[W_x] = d[2]

\* x was 1, and the line `let x = 2 x` has read 2 and left x at 2.
C2_Witness ==
  /\ Ran
  /\ lines >= 2
  /\ input = Line2(SetTo2, <<W_x>>)
  /\ W_x \in DOMAIN env0
  /\ env0[W_x] = VInt(1)
  /\ \E i \in 1..Len(trace) : trace[i] = Get(W_x, Some(VInt(2)))
  /\ env[W_x] = VInt(2)

\* Statements no line parses with: an unclosed parenthesis, a `let` without a name, a
\* character that is no token.
Unclosed == <<<<"(">>, <<"1">>, <<"+">>, <<"2">>>>
Nameless == <<W_let, <<"=">>, <<"1">>>>
Dollar == <<<<"$">>>>
Dangling == <<<<"1">>, <<"+">>>>
Broken == {Unclosed, Nameless, Dollar}

HasError(line) ==
  \/ \E b \in Broken \cup {Dangling} : line = Line(b)
  \/ \E a \in Statements, b \in Broken : line = Line2(a, b) \/ line = Line2(b, a)
  \/ \E a \in Statements : line = Line2(a, Dangling)

\* C5: a line with a top-level expression that does not lex or parse gives the error
\* alone; interact then evaluates nothing, leaves the environment as it was, prints the
\* message and stays ready for the next line.
C5_ErrorLineChangesNothing ==
  Ran =>
    /\ HasError(input) => res.st = "Err"
    /\ res.st = "Err" =>
         /\ DOMAIN res = {"st", "err"}
         /\ env = env0
         /\ trace = <<Stdout(Prompt), Stdout(res.err)>>
         /\ ~crashed

\* x was 1, and the line `let x = 2 $` has left it at 1.
C5_Witness ==
  /\ Ran
  /\ input = Line2(SetTo2, Dollar)
  /\ res.st = "Err"
  /\ W_x \in DOMAIN env0
  /\ env[W_x] = VInt(1)
  /\ ~crashed

\* ---------------------------------------------------------------- printed integers read back

\* Longest integer literal of the round trip's specification, in digits.
MaxDigits == 2

Literals == UNION {[1..n -> Digits] : n \in 1..MaxDigits}

RoundTripInputs == {IntToStr(v) : v \in MinInt..MaxInt} \cup Literals

RoundTripInit == Idle /\ overflow_checks \in BOOLEAN /\ input \in RoundTripInputs

\* parse(&input), then expr.eval(env) on the one expression it returned.
ParseAndEvaluate ==
  /\ res = None
  /\ LET parsed == parse(input)
     IN  IF parsed.st = "Ok" /\ Len(parsed.exprs) = 1
         THEN /\ res' = eval(parsed.exprs[1], Start)
              /\ env' = res'.env
              /\ trace' = res'.trace
              /\ crashed' = (res'.st = "Panic")
         ELSE /\ res' = parsed
              /\ UNCHANGED <<env, trace, crashed>>
  /\ UNCHANGED <<env0, input, lines, overflow_checks>>

SpecRoundTrip == RoundTripInit /\ [][ParseAndEvaluate]_vars

\* The number a run of decimal digits writes.
RECURSIVE Numeral(_)
Numeral(digits) ==
  IF digits = <<>> THEN 0
  ELSE 10 * Numeral(SubSeq(digits, 1, Len(digits) - 1)) + DigitVal(Last(digits))

\* C7: the text printed for any Int v, the smallest included, parses to one expression
\* that evaluates to Int(v); an integer literal that fits evaluates to its number.
C7_PrintedIntReadsBack ==
  Ran =>
    /\ \A v \in MinInt..MaxInt :
         input = IntToStr(v) => (res.st = "Value" /\ res.val = VInt(v))
    /\ (input \in Literals /\ Numeral(input) <= MaxInt) =>
         (res.st = "Value" /\ res.val = VInt(Numeral(input)))

====
